---- MODULE Spec2Model ----
(***************************************************************************)
(* Model of the RPI calculation lifecycle of ocrosby/datum:                *)
(*   src/lambda/rpi_calculator.py  (RPICalculator, lambda_handler)         *)
(*   src/lambda/event_handlers.py  (CalculationEventHandler)               *)
(*                                                                         *)
(* and of its saga workflow:                                               *)
(*   src/lambda/saga_coordinator.py (SagaCoordinator)                      *)
(* of its event publisher and of the rating computation:                   *)
(*   src/lambda/event_publisher.py  (EventPublisher)                       *)
(*   src/lambda/rpi_calculator.py   (calculate_* of RPICalculator)         *)
(* and of the rate-limited request of the index processor:                 *)
(*   src/index_processor/http_operations.py                                *)
(*                                                                         *)
(* Time is counted in whole hours.  A store operation of the code is one   *)
(* step of the model; every store operation may raise.                     *)
(***************************************************************************)
EXTENDS Integers, Sequences, FiniteSets, TLC

\* ------------------------------------------------------------------ bounds
StartHour == 0         \* the clock value in the initial state
MaxHour == 3           \* the clock stops here
MaxMatches == 1        \* longest match list loaded under Spec
MaxExtraMatches == 1   \* matches beyond ProgressInterval under SpecProgress
MaxApiRuns == 1        \* runs one directly used calculator may start
MaxRows == 1           \* largest count handed to a direct call
MaxSteps == 2          \* steps added to a saga that is called in any order
MaxRunSteps == 3       \* steps added to a saga that is run from its first step
MaxEvents == 2         \* publish_event calls
MaxEngineMatches == 3  \* longest match list rated on a new calculator
MaxReuseMatches == 1   \* longest match list rated on a reused calculator
MaxRetries == 2        \* largest max_retries a request is made with
MaxAttempts == 4       \* requests sent within one call

\* -------------------------------------------------------- program constants
HoursPerDay == 24      \* calculation_date is strftime("%Y-%m-%d")
FreshnessHours == 1    \* timedelta(hours=1) in load_cached_calculation
StatusTtlHours == 2    \* timedelta(hours=2) in mark_calculation_start
ProgressInterval == 100 \* (i + 1) % 100 in calculate_team_records_optimized
team_batch_size == 50  \* calculate_all_rpi_optimized

Invocations == {1, 2}  \* lambda_handler invocations of rpi_calculator
ApiCaller == 0         \* a calculator object used directly by a caller
Procs == Invocations \cup {ApiCaller}

\* ----------------------------------------------------------- identifiers
\* calculation_id is "rpi_calc_<%Y%m%d>_<%H%M%S>_<uuid4 hex[:8]>".
NoId == [day |-> -1, hour |-> -1, uid |-> -1]   \* self.calculation_id = None
ExtId == [day |-> 0, hour |-> 0, uid |-> 0]     \* a run known only from events

generate_calculation_id_no_uuid(t, u) ==
    [day |-> t \div HoursPerDay, hour |-> t % HoursPerDay, uid |-> 1]

generate_calculation_id(t, u) ==
    [day |-> t \div HoursPerDay, hour |-> t % HoursPerDay, uid |-> u]

\* datetime.now().strftime("%Y-%m-%d"): the period key of lambda_handler
IsoDate(t) == [fmt |-> "iso", day |-> t \div HoursPerDay]

\* self.calculation_id.split('_')[2]: the "%Y%m%d" part of the id, which is
\* not the "%Y-%m-%d" text of the period key.
DateFromCalculationId(id) == [fmt |-> "compact", day |-> id.day]

NoDate == [fmt |-> "none", day |-> -1]

StatusKey(date, id) == [calculation_date |-> date, calculation_id |-> id]

\* order of sort keys within one partition (text order of the id)
IdBefore(a, b) ==
    \/ a.day < b.day
    \/ a.day = b.day /\ a.hour < b.hour
    \/ a.day = b.day /\ a.hour = b.hour /\ a.uid <= b.uid

\* ------------------------------------------------- calculation-status table
\* An item carries only the attributes some write gave it; -1 and "unset"
\* stand for an attribute the item does not have.
BlankItem ==
    [status |-> "unset", matches_processed |-> -1, teams_calculated |-> -1,
     total_matches |-> -1, total_teams |-> -1, ttl |-> -1]

\* table.put_item: the item replaces whatever was stored under the key
PutItem(table, key, item) == (key :> item) @@ table

\* table.update_item with a SET expression: creates the item when the key is
\* new, otherwise changes only the named attributes.
OldItem(table, key) == IF key \in DOMAIN table THEN table[key] ELSE BlankItem

StartItem(t) ==
    [BlankItem EXCEPT !.status = "in_progress", !.matches_processed = 0,
                      !.teams_calculated = 0, !.ttl = t + StatusTtlHours]

ProgressItem(old, matches, teams) ==
    [old EXCEPT !.matches_processed = matches, !.teams_calculated = teams]

CompleteItem(old, matches, teams) ==
    [old EXCEPT !.status = "completed", !.total_matches = matches,
                !.total_teams = teams]

\* a key attribute that is None is rejected by the store
ValidKey(key) == key.calculation_id # NoId /\ key.calculation_date # NoDate

InProgressKeys(table, date) ==
    {k \in DOMAIN table :
        k.calculation_date = date /\ table[k].status = "in_progress"}

\* The value table.query returns is read with response.get('Items', []) and
\* response['LastEvaluatedKey'] in load_matches_from_dynamodb: it is a dict,
\* whose attributes are the dict methods.
QueryResponseHasAttr(name) ==
    name \in {"clear", "copy", "fromkeys", "get", "items", "keys", "pop",
              "popitem", "setdefault", "update", "values"}

NoKey == StatusKey(NoDate, NoId)

FirstKey(keys) == CHOOSE k \in keys :
    \A j \in keys : IdBefore(k.calculation_id, j.calculation_id)

\* check_calculation_status: the key of the in_progress item it returns, or
\* NoKey for None.  Both a failing query and the failing attribute read
\* response.Items end in the except branch, which returns None.
check_calculation_status(table, date, query_fails) ==
    IF query_fails THEN NoKey
    ELSE IF ~QueryResponseHasAttr("Items") THEN NoKey
    ELSE IF InProgressKeys(table, date) # {}
         THEN FirstKey(InProgressKeys(table, date))
         ELSE NoKey

\* ------------------------------------------------------------- cache table
\* results are abstracted to their number of rows; NoResults is None
NoResults == -1
json_dumps(rows) == [json |-> rows]
json_loads(text) == text.json

CacheItem(rows, t, id) ==
    [data |-> json_dumps(rows), timestamp |-> t, calculation_id |-> id]

cache_is_fresh_inclusive(item, t) == t - item.timestamp <= FreshnessHours

\* datetime.now() - cache_time < timedelta(hours=1)
cache_is_fresh(item, t) == t - item.timestamp < FreshnessHours

\* the part of load_cached_calculation after the in-progress check
read_cache(cache, date, t, get_fails) ==
    IF get_fails THEN NoResults
    ELSE IF date \in DOMAIN cache /\ cache_is_fresh(cache[date], t)
         THEN json_loads(cache[date].data)
         ELSE NoResults

\* load_cached_calculation as one call
load_cached_calculation(table, cache, date, t, query_fails, get_fails) ==
    IF check_calculation_status(table, date, query_fails) # NoKey
    THEN NoResults
    ELSE read_cache(cache, date, t, get_fails)

\* =========================================================== saga workflow
\* src/lambda/saga_coordinator.py.  The model follows one saga: every store
\* operation of the coordinator is keyed by saga_id, and start_saga draws a
\* fresh uuid, so the items of other sagas are neither read nor written.
\* A call on the coordinator is one step of the model, and the saga store is
\* either up or down for the whole of a call; the calls come from a
\* caller that holds a coordinator (the handler's
\* coordinator.execute_step(event['saga_id'], event['step_index']) on line
\* 333 is the call with an arbitrary index).  Building the coordinator needs
\* the name EventPublisher (line 23), which saga_coordinator.py does not
\* import; the caller's module namespace has to provide it.
\* Timestamps, step_data and the result payload of a step are left out.

TheSaga == "saga"            \* the saga_id of the saga the model follows

NoFunction == "None"         \* compensation_function = None

KnownSteps ==
    {"collect_matches", "calculate_rpi", "publish_results", "update_cache"}

RollbackFunctions == {"rollback_matches", "rollback_rpi", "rollback_publish"}

\* the (step_name, compensation_function) pairs handed to add_step: a step
\* with a compensation, a step without one, a step no handler is named for
StepInputs ==
    {<<"collect_matches", "rollback_matches">>,
     <<"calculate_rpi", NoFunction>>,
     <<"archive_results", "rollback_publish">>}

NewSaga == [status |-> "started", steps |-> <<>>, failed_step |-> {}]

NewStep(step_name, compensation_function) ==
    [step_name |-> step_name, status |-> "pending",
     compensation_function |-> compensation_function]

\* The run of one execute_step call: the table as the call has left it so
\* far, the store operations made, the handlers dispatched and the
\* compensations invoked (step positions, in call order), the exception that
\* is propagating and the first exception of the call.
NewRun(table) ==
    [table |-> table, dispatched |-> <<>>, compensated |-> <<>>,
     raised |-> "none", first_raised |-> "none", failed_at |-> {},
     rollback_errors |-> FALSE]

\* r.failed_at is the step_index of the frame in which the first exception
\* of the call was raised
Raise(r, step_index, exc) ==
    IF r.first_raised = "none"
    THEN [r EXCEPT !.raised = exc, !.first_raised = exc,
                   !.failed_at = {step_index}]
    ELSE [r EXCEPT !.raised = exc]

\* lines 264-276: SET steps[index] = :step; the store takes no negative
\* list index
_update_step_status(r, step_index, step, env) ==
    IF env.store_down \/ step_index < 0
    THEN Raise(r, step_index, "ClientError")
    ELSE [r EXCEPT !.table[TheSaga].steps[step_index + 1] = step]

\* lines 117-130, had the dispatch no `else` branch
_execute_step_logic_any_name(r, at, step_name, env) ==
    LET d == [r EXCEPT !.dispatched = Append(@, at)] IN
    IF at \in env.raising /\ step_name # "update_cache"
    THEN Raise(d, at, "InvokeError")
    ELSE d

\* lines 117-196: the dispatch on step_name; a handler is a synchronous
\* Lambda invocation, which raises for the step positions in env.raising
\* (_update_cache invokes nothing)
_execute_step_logic(r, at, step_name, env) ==
    IF step_name \notin KnownSteps
    THEN Raise(r, at, "ValueError: Unknown step")
    ELSE LET d == [r EXCEPT !.dispatched = Append(@, at)] IN
         IF at \in env.raising /\ step_name # "update_cache"
         THEN Raise(d, at, "InvokeError")
         ELSE d

\* lines 278-292, had the update kept the status
_complete_saga_skipped(r, step_index, env) ==
    IF env.store_down THEN Raise(r, step_index, "ClientError")
    ELSE r

\* lines 278-292
_complete_saga(r, step_index, env) ==
    IF env.store_down THEN Raise(r, step_index, "ClientError")
    ELSE [r EXCEPT !.table[TheSaga].status = "completed"]

\* lines 225-241, had the `except` re-raised what the rollback raised
_execute_compensation_reraises(r, i, compensation_function, env) ==
    IF compensation_function \in RollbackFunctions
    THEN LET c == [r EXCEPT !.compensated = Append(@, i),
                            !.rollback_errors = @ \/ env.rollback_raising]
         IN IF env.rollback_raising THEN Raise(c, i, "RollbackError") ELSE c
    ELSE r

\* lines 225-241: the rollback named by compensation_function runs; what it
\* raises is logged.  The rollback bodies are placeholders (lines 243-262);
\* env.rollback_raising says whether a rollback raises.
_execute_compensation(r, i, compensation_function, env) ==
    IF compensation_function \in RollbackFunctions
    THEN [r EXCEPT !.compensated = Append(@, i),
                   !.rollback_errors = @ \/ env.rollback_raising]
    ELSE r

\* lines 213-219: for i in range(failed_step_index - 1, -1, -1)
RECURSIVE compensate_steps(_, _, _, _)
compensate_steps(r, steps, i, env) ==
    IF i < 0 THEN r
    ELSE IF i >= Len(steps) THEN Raise(r, i, "IndexError")
    ELSE LET step == steps[i + 1]
             c == IF /\ step.status = "completed"
                     /\ step.compensation_function # NoFunction
                  THEN _execute_compensation(r, i,
                            step.compensation_function, env)
                  ELSE r
         IN IF c.raised # "none" THEN c
            ELSE compensate_steps(c, steps, i - 1, env)

\* lines 198-223; r.raised is "none" on entry, and what is raised here
\* leaves through the `raise` on line 223
_compensate_saga(r, failed_step_index, env) ==
    LET saga == [r.table[TheSaga] EXCEPT
                    !.status = "failed",
                    !.failed_step = {failed_step_index}]
    IN
    IF env.store_down THEN Raise(r, failed_step_index, "ClientError")
    ELSE IF TheSaga \notin DOMAIN r.table
         THEN Raise(r, failed_step_index, "KeyError")
    ELSE compensate_steps([r EXCEPT !.table[TheSaga] = saga],
                          saga.steps, failed_step_index - 1, env)

\* lines 74-115.  `at` is the list position Python takes for step_index (a
\* negative index counts from the end of the list).
RECURSIVE execute_step(_, _, _)
execute_step(r, step_index, env) ==
    LET saga == r.table[TheSaga]
        n == Len(saga.steps)
        at == IF step_index < 0 THEN n + step_index ELSE step_index
        step == saga.steps[at + 1]
        running ==
            _update_step_status(r, step_index,
                                [step EXCEPT !.status = "running"], env)
        result == _execute_step_logic(running, at, step.step_name, env)
        completed ==
            _update_step_status(result, step_index,
                                [step EXCEPT !.status = "completed"], env)
        try ==
            IF env.store_down THEN Raise(r, step_index, "ClientError")
            ELSE IF TheSaga \notin DOMAIN r.table
                 THEN Raise(r, step_index, "KeyError")
            ELSE IF step_index >= n
                 THEN Raise(r, step_index,
                            "ValueError: Step index out of range")
            ELSE IF at < 0 THEN Raise(r, step_index, "IndexError")
            ELSE IF running.raised # "none" THEN running
            ELSE IF result.raised # "none" THEN result
            ELSE IF completed.raised # "none" THEN completed
            ELSE IF step_index + 1 < n
                 THEN execute_step(completed, step_index + 1, env)
            ELSE _complete_saga(completed, step_index, env)
        except ==
            _compensate_saga([try EXCEPT !.raised = "none"], step_index, env)
    IN
    IF try.raised = "none" THEN try
    ELSE IF except.raised = "none" THEN [except EXCEPT !.raised = try.raised]
    ELSE except

EmptySagaTable == [k \in {} |-> NewSaga]

\* what the caller of the latest call saw: the call, the status the
\* addressed step had before it, and the run of the call
NoSagaCall ==
    [op |-> "none", step_index |-> 0, step_was |-> "none",
     store_down |-> FALSE, dispatched |-> <<>>, compensated |-> <<>>,
     raised |-> "none", first_raised |-> "none", failed_at |-> {},
     rollback_errors |-> FALSE]

\* ========================================================= event publisher
\* src/lambda/event_publisher.py.  An envelope is named by its event_id;
\* timestamp, data and version are left out.
NoEvent == 0                 \* no event id: the call raised

MainBus == "ncaa-soccer-etl-event-bus"     \* self.main_bus

\* the bus_name arguments of publish_event: None (the default) and the
\* three other buses of __init__
BusNames ==
    {"None", "ncaa-soccer-etl-soccer-events",
     "ncaa-soccer-etl-calculation-events", "ncaa-soccer-etl-metadata-events"}

EventTypes == {"MatchCreated", "CalculationStarted", "TeamMetadataUpdated"}

\* line 50: bus_name or self.main_bus
ChosenBus(bus_name) == IF bus_name = "None" THEN MainBus ELSE bus_name

\* lines 38-45
Envelope(event_id, event_type) ==
    [event_id |-> event_id, event_type |-> event_type]

\* lines 70-77: the entry handed to put_events
BusEntry(event, bus_name) ==
    [DetailType |-> event.event_type, Detail |-> [json |-> event],
     EventBusName |-> bus_name]

NoPublishCall ==
    [returned |-> NoEvent, event_id |-> NoEvent, bus |-> "None",
     raised |-> "none"]

\* ============================================================ rating engine
\* RPICalculator.teams is a dict: team_list is its key order, teams its
\* values.  cache maps <<kind, team>> keys to values.
NewRecord == [wins |-> 0, losses |-> 0, ties |-> 0, games |-> <<>>]

NewEngine ==
    [matches |-> <<>>, team_list |-> <<>>,
     teams |-> [t \in {} |-> NewRecord],
     cache |-> [k \in {} |-> <<0, 1>>],
     results |-> <<>>, stage |-> "new", reused |-> FALSE]

\* The engine runs inside lambda_handler after mark_calculation_start; the
\* progress bookkeeping of the two loops is modelled with the handler and
\* left out here.  A float is modelled by the exact value it stands for, a
\* fraction <<numerator, denominator>> in lowest terms.
Teams == {"X", "Y", "Z"}

\* (home_team, away_team) of the matches rated: every team plays at home
\* and away
Fixtures == {<<"X", "Y">>, <<"Y", "Z">>, <<"Z", "X">>}

\* (home_score, away_score) of a completed match
ScoreLines == {<<2, 1>>, <<1, 0>>, <<1, 1>>, <<0, 1>>}

Match(home, away, line) ==
    [home_team |-> home, away_team |-> away,
     home_score |-> line[1], away_score |-> line[2]]

Matches ==
    {Match(fixture[1], fixture[2], line) :
        fixture \in Fixtures, line \in ScoreLines}

MatchLists(n) == UNION {[1 .. k -> Matches] : k \in 0 .. n}

RECURSIVE Gcd(_, _)
Gcd(a, b) == IF b = 0 THEN a ELSE Gcd(b, a % b)

Frac(n, d) == <<n \div Gcd(n, d), d \div Gcd(n, d)>>

Zero == <<0, 1>>             \* 0.0

One == <<1, 1>>

FracAdd(a, b) == Frac(a[1] * b[2] + b[1] * a[2], a[2] * b[2])

FracMul(a, b) == Frac(a[1] * b[1], a[2] * b[2])

FracDiv(a, k) == Frac(a[1], a[2] * k)

FracLeq(a, b) == a[1] * b[2] <= b[1] * a[2]

FracLess(a, b) == a[1] * b[2] < b[1] * a[2]

Decimals == 10000            \* round(rpi, 4)

\* round(x, 4): the nearest multiple of 1/10000, a tie going to the even one
round4(x) ==
    LET n == x[1] * Decimals
        q == n \div x[2]
        r == n % x[2]
        up == \/ 2 * r > x[2]
              \/ 2 * r = x[2] /\ q % 2 = 1
    IN Frac(IF up THEN q + 1 ELSE q, Decimals)

\* lines 291-310, had a tie been counted for the home team only
record_match_tie_home_only(records, match) ==
    LET home == match.home_team
        away == match.away_team
        keys == records.team_list
                  \o (IF home \in DOMAIN records.teams THEN <<>> ELSE <<home>>)
                  \o (IF away \in DOMAIN records.teams THEN <<>> ELSE <<away>>)
        old(t) == IF t \in DOMAIN records.teams THEN records.teams[t]
                  ELSE NewRecord
        home_wins == match.home_score > match.away_score
        away_wins == match.away_score > match.home_score
        side(t, won, lost, where) ==
            [wins |-> old(t).wins + (IF won THEN 1 ELSE 0),
             losses |-> old(t).losses + (IF lost THEN 1 ELSE 0),
             ties |-> old(t).ties
                        + (IF ~won /\ ~lost /\ where = "home" THEN 1 ELSE 0),
             games |-> Append(old(t).games,
                         [opponent |-> IF t = home THEN away ELSE home,
                          home_away |-> where,
                          result |-> IF won THEN "win"
                                     ELSE IF lost THEN "loss" ELSE "tie"])]
    IN [team_list |-> keys,
        teams |-> [t \in DOMAIN records.teams \cup {home, away} |->
                     IF t = home THEN side(t, home_wins, away_wins, "home")
                     ELSE IF t = away
                          THEN side(t, away_wins, home_wins, "away")
                     ELSE records.teams[t]]]

\* lines 278-310: one iteration of the loop of
\* calculate_team_records_optimized on the dict team_records
record_match(records, match) ==
    LET home == match.home_team
        away == match.away_team
        keys == records.team_list
                  \o (IF home \in DOMAIN records.teams THEN <<>> ELSE <<home>>)
                  \o (IF away \in DOMAIN records.teams THEN <<>> ELSE <<away>>)
        old(t) == IF t \in DOMAIN records.teams THEN records.teams[t]
                  ELSE NewRecord
        home_wins == match.home_score > match.away_score
        away_wins == match.away_score > match.home_score
        side(t, won, lost, where) ==
            [wins |-> old(t).wins + (IF won THEN 1 ELSE 0),
             losses |-> old(t).losses + (IF lost THEN 1 ELSE 0),
             ties |-> old(t).ties + (IF ~won /\ ~lost THEN 1 ELSE 0),
             games |-> Append(old(t).games,
                         [opponent |-> IF t = home THEN away ELSE home,
                          home_away |-> where,
                          result |-> IF won THEN "win"
                                     ELSE IF lost THEN "loss" ELSE "tie"])]
    IN [team_list |-> keys,
        teams |-> [t \in DOMAIN records.teams \cup {home, away} |->
                     IF t = home THEN side(t, home_wins, away_wins, "home")
                     ELSE IF t = away
                          THEN side(t, away_wins, home_wins, "away")
                     ELSE records.teams[t]]]

\* lines 271-321: the loop over self.matches
RECURSIVE calculate_team_records_optimized(_, _, _)
calculate_team_records_optimized(matches, i, records) ==
    IF i > Len(matches) THEN records
    ELSE calculate_team_records_optimized(matches, i + 1,
                                          record_match(records, matches[i]))

\* lines 355-357 and 381-383: the set of the opponents of the games
Opponents(teams, team) ==
    {teams[team].games[g].opponent : g \in DOMAIN teams[team].games}

\* lines 323-342, had the losses been left out of total_games
calculate_wp_cached_without_losses(cache, teams, team) ==
    IF <<"wp", team>> \in DOMAIN cache THEN cache[<<"wp", team>>]
    ELSE IF team \notin DOMAIN teams THEN Zero
    ELSE LET record == teams[team]
             total_games == record.wins + record.ties
         IN IF total_games = 0 THEN Zero
            ELSE Frac(2 * record.wins + record.ties, 2 * total_games)

\* lines 323-342: the value returned for `team` by an instance whose cache
\* and teams are as given
calculate_wp_cached(cache, teams, team) ==
    IF <<"wp", team>> \in DOMAIN cache THEN cache[<<"wp", team>>]
    ELSE IF team \notin DOMAIN teams THEN Zero
    ELSE LET record == teams[team]
             total_games == record.wins + record.losses + record.ties
         IN IF total_games = 0 THEN Zero
            ELSE Frac(2 * record.wins + record.ties, 2 * total_games)

\* lines 362-364: total_owp += self.calculate_wp_cached(opponent)
RECURSIVE total_wp(_, _, _)
total_wp(cache, teams, opponents) ==
    IF opponents = {} THEN Zero
    ELSE LET o == CHOOSE t \in opponents : TRUE IN
         FracAdd(calculate_wp_cached(cache, teams, o),
                 total_wp(cache, teams, opponents \ {o}))

\* lines 344-368, had every game counted (a list of opponents, not a set)
RECURSIVE total_wp_per_game(_, _, _, _)
total_wp_per_game(cache, teams, games, g) ==
    IF g > Len(games) THEN Zero
    ELSE FracAdd(calculate_wp_cached(cache, teams, games[g].opponent),
                 total_wp_per_game(cache, teams, games, g + 1))

calculate_owp_cached_per_game(cache, teams, team) ==
    IF <<"owp", team>> \in DOMAIN cache THEN cache[<<"owp", team>>]
    ELSE IF team \notin DOMAIN teams THEN Zero
    ELSE IF teams[team].games = <<>> THEN Zero
    ELSE FracDiv(total_wp_per_game(cache, teams, teams[team].games, 1),
                 Len(teams[team].games))

\* lines 344-368
calculate_owp_cached(cache, teams, team) ==
    IF <<"owp", team>> \in DOMAIN cache THEN cache[<<"owp", team>>]
    ELSE IF team \notin DOMAIN teams THEN Zero
    ELSE LET opponents == Opponents(teams, team) IN
         IF opponents = {} THEN Zero
         ELSE FracDiv(total_wp(cache, teams, opponents),
                      Cardinality(opponents))

\* lines 388-390: total_oowp += self.calculate_owp_cached(opponent)
RECURSIVE total_owp(_, _, _)
total_owp(cache, teams, opponents) ==
    IF opponents = {} THEN Zero
    ELSE LET o == CHOOSE t \in opponents : TRUE IN
         FracAdd(calculate_owp_cached(cache, teams, o),
                 total_owp(cache, teams, opponents \ {o}))

\* lines 370-394, had the opponent's OWP left out its games against `team`
RECURSIVE total_owp_without(_, _, _, _)
total_owp_without(cache, teams, opponents, team) ==
    IF opponents = {} THEN Zero
    ELSE LET o == CHOOSE t \in opponents : TRUE
             others == Opponents(teams, o) \ {team}
             owp == IF others = {} THEN Zero
                    ELSE FracDiv(total_wp(cache, teams, others),
                                 Cardinality(others))
         IN FracAdd(owp,
                    total_owp_without(cache, teams, opponents \ {o}, team))

calculate_oowp_cached_excluding_team(cache, teams, team) ==
    IF <<"oowp", team>> \in DOMAIN cache THEN cache[<<"oowp", team>>]
    ELSE IF team \notin DOMAIN teams THEN Zero
    ELSE LET opponents == Opponents(teams, team) IN
         IF opponents = {} THEN Zero
         ELSE FracDiv(total_owp_without(cache, teams, opponents, team),
                      Cardinality(opponents))

\* lines 370-394
calculate_oowp_cached(cache, teams, team) ==
    IF <<"oowp", team>> \in DOMAIN cache THEN cache[<<"oowp", team>>]
    ELSE IF team \notin DOMAIN teams THEN Zero
    ELSE LET opponents == Opponents(teams, team) IN
         IF opponents = {} THEN Zero
         ELSE FracDiv(total_owp(cache, teams, opponents),
                      Cardinality(opponents))

\* lines 396-405, had the sum been returned as it is
calculate_rpi_unrounded(cache, teams, team) ==
    LET wp == calculate_wp_cached(cache, teams, team)
        owp == calculate_owp_cached(cache, teams, team)
        oowp == calculate_oowp_cached(cache, teams, team)
    IN FracAdd(FracAdd(FracMul(<<1, 4>>, wp), FracMul(<<1, 2>>, owp)),
               FracMul(<<1, 4>>, oowp))

\* lines 396-405: round((0.25 * wp) + (0.50 * owp) + (0.25 * oowp), 4)
calculate_rpi(cache, teams, team) ==
    LET wp == calculate_wp_cached(cache, teams, team)
        owp == calculate_owp_cached(cache, teams, team)
        oowp == calculate_oowp_cached(cache, teams, team)
    IN round4(FracAdd(FracAdd(FracMul(<<1, 4>>, wp), FracMul(<<1, 2>>, owp)),
                      FracMul(<<1, 4>>, oowp)))

\* the keys a call of calculate_rpi(team) leaves in self.cache: a value is
\* stored when it was computed from a record (lines 340, 366, 392)
CacheKeys(teams) ==
    {<<kind, team>> : kind \in {"wp", "owp", "oowp"}, team \in DOMAIN teams}

CacheAfter(cache, teams) ==
    [key \in DOMAIN cache \cup CacheKeys(teams) |->
        IF key \in DOMAIN cache THEN cache[key]
        ELSE IF key[1] = "wp" THEN calculate_wp_cached(cache, teams, key[2])
        ELSE IF key[1] = "owp" THEN calculate_owp_cached(cache, teams, key[2])
        ELSE calculate_oowp_cached(cache, teams, key[2])]

\* lines 434-445: the result row of one team (metadata and win_percentage
\* are left out); rank 0 stands for a row that has no rank yet
ResultRow(cache, teams, team) ==
    [team |-> team,
     rpi |-> calculate_rpi(cache, teams, team),
     wp |-> calculate_wp_cached(cache, teams, team),
     owp |-> calculate_owp_cached(cache, teams, team),
     oowp |-> calculate_oowp_cached(cache, teams, team),
     wins |-> teams[team].wins, losses |-> teams[team].losses,
     ties |-> teams[team].ties,
     total_games |-> teams[team].wins + teams[team].losses
                        + teams[team].ties,
     rank |-> 0]

\* list.sort with reverse=True: a stable sort, rows of equal rpi keep the
\* order they had
RECURSIVE stable_sort_descending(_, _)
stable_sort_descending(rows, sorted) ==
    IF rows = <<>> THEN sorted
    ELSE LET row == Head(rows)
             before == SelectSeq(sorted,
                            LAMBDA r : FracLeq(row.rpi, r.rpi))
             after == SelectSeq(sorted,
                            LAMBDA r : ~FracLeq(row.rpi, r.rpi))
         IN stable_sort_descending(Tail(rows), before \o <<row>> \o after)

\* line 481, had rows of equal rpi been put in reverse order
sort_by_rpi_reversing_ties(rows) ==
    stable_sort_descending([i \in 1 .. Len(rows) |-> rows[Len(rows) + 1 - i]],
                           <<>>)

\* line 481: rpi_results.sort(key=lambda x: x['rpi'], reverse=True)
sort_by_rpi(rows) == stable_sort_descending(rows, <<>>)

\* lines 407-487
calculate_all_rpi_optimized(cache, team_list, teams) ==
    LET rpi_results ==
            [i \in 1 .. Len(team_list) |->
                ResultRow(cache, teams, team_list[i])]
        sorted == sort_by_rpi(rpi_results)
    IN [i \in 1 .. Len(sorted) |-> [sorted[i] EXCEPT !.rank = i]]

\* ------------------------------------------------------------------- state
\* ======================================================== http_operations
\* src/index_processor/http_operations.py.  One call of
\* send_request_with_rate_limit_handling is a loop around requests.get; what
\* the server answers to each request is an input of the model.
retry_delay == 60            \* default of the parameter retry_delay

default_wait_time == 60      \* wait_time when the 429 has no Retry-After

TooManyRequests == 429

\* the outcomes of one requests.get that the loop tells apart: a response
\* with a status code and a Retry-After header ("None": no header, "date":
\* an HTTP-date, which int() rejects), or an exception (no timeout is
\* passed to requests.get, so it raises no timeout)
StatusCodes == {200, 404, TooManyRequests}

RetryAfterValues == {"None", "30", "date"}

Responses ==
    {[kind |-> "response", status_code |-> code, retry_after |-> "None"] :
        code \in StatusCodes \ {TooManyRequests}}
    \cup {[kind |-> "response", status_code |-> TooManyRequests,
           retry_after |-> header] : header \in RetryAfterValues}

Exceptions ==
    {[kind |-> exc, status_code |-> 0, retry_after |-> "None"] :
        exc \in {"ConnectionError", "RemoteDisconnected", "TooManyRedirects"}}

ServerOutcomes == Responses \cup Exceptions

\* int(retry_after) if retry_after else 60
wait_time(retry_after) ==
    IF retry_after = "None" THEN default_wait_time
    ELSE IF retry_after = "30" THEN 30
    ELSE -1                  \* int() raises ValueError

NoRequest ==
    [pc |-> "idle", max_retries |-> 0, retries |-> 0, attempts |-> 0,
     current_delay |-> 0, slept |-> 0, status_code |-> 0, raised |-> "none"]

VARIABLES
    now,            \* the clock, in hours
    next_uid,       \* source of the uuid part of calculation ids
    status_table,   \* CALCULATION_STATUS_TABLE: key -> item
    cache_table,    \* CACHE_TABLE: period -> item
    calculator,     \* the RPICalculator object of each process
    frame,          \* the locals of each lambda_handler invocation
    rpi_table,      \* RPI_TABLE: (period, calculation id) of the rows stored
    s3_objects,     \* object store: (period, calculation id) of the files
    invoked,        \* asynchronous Lambda invocations made so far
    trace,          \* per invocation: what its calls observed and wrote
    last_call,      \* the latest direct call on the ApiCaller's calculator
    saga_table,     \* saga store: saga_id -> item
    saga_call,      \* the latest call on the SagaCoordinator
    next_event,     \* source of the uuid of event envelopes
    event_store,    \* EVENT_STORE_TABLE: the envelopes stored
    event_buses,    \* the entries put on the event buses
    publish_call,   \* the latest publish_event call
    engine,         \* an RPICalculator seen through its rating methods
    request         \* one call of send_request_with_rate_limit_handling

vars == <<now, next_uid, status_table, cache_table, calculator, frame,
          rpi_table, s3_objects, invoked, trace, last_call,
          saga_table, saga_call,
          next_event, event_store, event_buses, publish_call, engine, request>>

CachedId == [day |-> -2, hour |-> -2, uid |-> -2]  \* the id text "cached"

EmptyTable == [k \in {} |-> BlankItem]

NewCalculator ==
    [calculation_id |-> NoId, is_calculation_in_progress |-> FALSE,
     matches |-> 0, teams |-> 0]

NewFrame ==
    [pc |-> "init", calculation_date |-> NoDate, cached_results |-> NoResults,
     match_index |-> 0, team_records |-> 0, rpi_results |-> 0,
     response |-> "none", ongoing |-> NoKey]

NewTrace ==
    [check_failed |-> FALSE, seen_in_progress |-> FALSE,
     started_at_check |-> {}, start_written |-> FALSE,
     progress_prev |-> <<0, 0>>, progress_last |-> <<0, 0>>,
     progress_writes |-> 0, status_write_failed |-> FALSE,
     raised_by |-> "none"]

NoCall ==
    [op |-> "none", date |-> NoDate, pre_in_progress |-> FALSE,
     pre_completed |-> FALSE, pre_entry |-> FALSE, pre_age |-> -1,
     failed |-> FALSE, result |-> NoResults, changed |-> FALSE]

Init ==
    /\ now = StartHour
    /\ next_uid = 1
    /\ status_table = EmptyTable
    /\ cache_table = EmptyTable
    /\ calculator = [p \in Procs |-> NewCalculator]
    /\ frame = [p \in Invocations |-> NewFrame]
    /\ rpi_table = {}
    /\ s3_objects = {}
    /\ invoked = {}
    /\ trace = [p \in Invocations |-> NewTrace]
    /\ last_call = NoCall
    /\ saga_table = EmptySagaTable
    /\ saga_call = NoSagaCall
    /\ next_event = 1
    /\ event_store = {}
    /\ event_buses = {}
    /\ publish_call = NoPublishCall
    /\ engine = NewEngine
    /\ request = NoRequest

\* ---------------------------------------------------- RPICalculator methods
\* Each operator gives the effect of one method on the calculator object and
\* on the two tables; `fails` says whether the store operation raises.

mark_calculation_start(p, date, fails) ==
    LET id == generate_calculation_id(now, next_uid) IN
    /\ next_uid' = next_uid + 1
    /\ calculator' = [calculator EXCEPT ![p].calculation_id = id,
                                        ![p].is_calculation_in_progress = TRUE]
    /\ status_table' = IF fails THEN status_table
                       ELSE PutItem(status_table, StatusKey(date, id),
                                    StartItem(now))
    /\ UNCHANGED cache_table

update_calculation_progress(p, date, matches, teams, fails) ==
    LET key == StatusKey(date, calculator[p].calculation_id) IN
    /\ status_table' =
          IF fails \/ ~ValidKey(key) THEN status_table
          ELSE PutItem(status_table, key,
                       ProgressItem(OldItem(status_table, key), matches, teams))
    /\ UNCHANGED <<next_uid, calculator, cache_table>>

mark_calculation_complete(p, date, total_matches, total_teams, fails) ==
    LET key == StatusKey(date, calculator[p].calculation_id)
        raised == fails \/ ~ValidKey(key)
    IN
    /\ status_table' =
          IF raised THEN status_table
          ELSE PutItem(status_table, key,
                       CompleteItem(OldItem(status_table, key),
                                    total_matches, total_teams))
    /\ calculator' =
          IF raised THEN calculator
          ELSE [calculator EXCEPT ![p].is_calculation_in_progress = FALSE]
    /\ UNCHANGED <<next_uid, cache_table>>

\* lines 197-222, had the test of is_calculation_in_progress been left out
save_cached_calculation_unguarded(p, date, rows, fails) ==
    /\ cache_table' =
          IF fails THEN cache_table
          ELSE (date :> CacheItem(rows, now, calculator[p].calculation_id))
               @@ cache_table
    /\ UNCHANGED <<next_uid, calculator, status_table>>

save_cached_calculation(p, date, rows, fails) ==
    /\ cache_table' =
          IF calculator[p].is_calculation_in_progress \/ fails
          THEN cache_table
          ELSE (date :> CacheItem(rows, now, calculator[p].calculation_id))
               @@ cache_table
    /\ UNCHANGED <<next_uid, calculator, status_table>>

\* ------------------------------------------------- rpi_calculator handler
\* lambda_handler, one step per store operation.  frame[p].pc names the next
\* statement; "done" is a returned or raised invocation.

Goto(p, label) == [frame EXCEPT ![p].pc = label]

Return(f, p, kind) == [f EXCEPT ![p].pc = "done", ![p].response = kind]

\* the trace of an invocation names the call whose exception reached the
\* handler's `except` (lines 674-676)
Raised(p, raises, method) ==
    IF raises THEN [trace EXCEPT ![p].raised_by = method] ELSE trace

\* the trace of an invocation remembers that a status write raised inside
\* one of the bookkeeping methods (lines 92-93, 111-112, 136-137)
StatusWrite(t, p, fails) ==
    [t EXCEPT ![p].status_write_failed = @ \/ fails]

\* lines 587-605: calculator = RPICalculator(); check_calculation_status
CheckStatus(p, query_fails) ==
    LET date == IsoDate(now)
        ongoing == check_calculation_status(status_table, date, query_fails)
        f == [frame EXCEPT ![p].calculation_date = date, ![p].ongoing = ongoing]
    IN
    /\ frame[p].pc = "init"
    /\ frame' = IF ongoing # NoKey THEN Return(f, p, "in_progress")
                ELSE [f EXCEPT ![p].pc = "cache_check"]
    /\ trace' = [trace EXCEPT
            ![p].check_failed = query_fails,
            ![p].seen_in_progress = (InProgressKeys(status_table, date) # {}),
            ![p].started_at_check =
                {q \in Invocations : trace[q].start_written}]
    /\ UNCHANGED <<now, next_uid, status_table, cache_table, calculator,
                   rpi_table, s3_objects, invoked, last_call,
                   saga_table, saga_call,
                   next_event, event_store, event_buses, publish_call, engine, request>>

\* lines 168-171: the in-progress check inside load_cached_calculation
LoadCacheCheck(p, query_fails) ==
    LET ongoing == check_calculation_status(status_table,
                        frame[p].calculation_date, query_fails)
    IN
    /\ frame[p].pc = "cache_check"
    /\ frame' = IF ongoing # NoKey THEN Goto(p, "mark_start")
                ELSE Goto(p, "cache_get")
    /\ UNCHANGED <<now, next_uid, status_table, cache_table, calculator,
                   rpi_table, s3_objects, invoked, trace, last_call,
                   saga_table, saga_call,
                   next_event, event_store, event_buses, publish_call, engine, request>>

\* lines 173-195 and 608-609: the cache read and `if cached_results:`
LoadCacheGet(p, get_fails) ==
    LET rows == read_cache(cache_table, frame[p].calculation_date, now,
                           get_fails)
    IN
    /\ frame[p].pc = "cache_get"
    /\ frame' = [frame EXCEPT ![p].cached_results = rows,
                    ![p].pc = IF rows > 0 THEN "cached_store_db"
                              ELSE "mark_start"]
    /\ UNCHANGED <<now, next_uid, status_table, cache_table, calculator,
                   rpi_table, s3_objects, invoked, trace, last_call,
                   saga_table, saga_call,
                   next_event, event_store, event_buses, publish_call, engine, request>>

\* line 611, had the cached path recorded a completed run under the
\* calculation_id "cached" it passes to the store functions
StoreResultsInDynamoDB_records_run(p, fails) ==
    LET cached == frame[p].pc = "cached_store_db"
        id == IF cached THEN CachedId ELSE calculator[p].calculation_id
    IN
    /\ frame[p].pc \in {"cached_store_db", "store_db"}
    /\ rpi_table' = IF fails THEN rpi_table
                    ELSE rpi_table \cup
                         {StatusKey(frame[p].calculation_date, id)}
    /\ status_table' =
          IF cached /\ ~fails
          THEN PutItem(status_table, StatusKey(frame[p].calculation_date, id),
                       [BlankItem EXCEPT !.status = "completed"])
          ELSE status_table
    /\ frame' = IF fails THEN Return(frame, p, "raised")
                ELSE Goto(p, IF cached THEN "cached_store_s3" ELSE "store_s3")
    /\ trace' = Raised(p, fails, "store_rpi_results_in_dynamodb_atomic")
    /\ UNCHANGED <<now, next_uid, cache_table, calculator,
                   s3_objects, invoked, last_call,
                   saga_table, saga_call,
                   next_event, event_store, event_buses, publish_call, engine, request>>

\* line 611 / 656: store_rpi_results_in_dynamodb_atomic
StoreResultsInDynamoDB(p, fails) ==
    LET cached == frame[p].pc = "cached_store_db"
        id == IF cached THEN CachedId ELSE calculator[p].calculation_id
    IN
    /\ frame[p].pc \in {"cached_store_db", "store_db"}
    /\ rpi_table' = IF fails THEN rpi_table
                    ELSE rpi_table \cup
                         {StatusKey(frame[p].calculation_date, id)}
    /\ frame' = IF fails THEN Return(frame, p, "raised")
                ELSE Goto(p, IF cached THEN "cached_store_s3" ELSE "store_s3")
    /\ trace' = Raised(p, fails, "store_rpi_results_in_dynamodb_atomic")
    /\ UNCHANGED <<now, next_uid, status_table, cache_table, calculator,
                   s3_objects, invoked, last_call,
                   saga_table, saga_call,
                   next_event, event_store, event_buses, publish_call, engine, request>>

\* line 612 / 657: store_rpi_results_in_s3_optimized
StoreResultsInS3(p, fails) ==
    LET cached == frame[p].pc = "cached_store_s3"
        id == IF cached THEN CachedId ELSE calculator[p].calculation_id
    IN
    /\ frame[p].pc \in {"cached_store_s3", "store_s3"}
    /\ s3_objects' = IF fails THEN s3_objects
                     ELSE s3_objects \cup
                          {StatusKey(frame[p].calculation_date, id)}
    /\ frame' = IF fails THEN Return(frame, p, "raised")
                ELSE Goto(p, IF cached THEN "cached_trigger" ELSE "trigger")
    /\ trace' = Raised(p, fails, "store_rpi_results_in_s3_optimized")
    /\ UNCHANGED <<now, next_uid, status_table, cache_table, calculator,
                   rpi_table, invoked, last_call,
                   saga_table, saga_call,
                   next_event, event_store, event_buses, publish_call, engine, request>>

\* lines 613-623 / 660-672 and trigger_gist_publisher, whose errors are logged
TriggerGistPublisher(p, fails) ==
    LET cached == frame[p].pc = "cached_trigger" IN
    /\ frame[p].pc \in {"cached_trigger", "trigger"}
    /\ invoked' = IF fails THEN invoked
                  ELSE invoked \cup
                       {[function |-> "gist_publisher",
                         calculation_date |-> frame[p].calculation_date,
                         trigger |-> "rpi_calculation"]}
    /\ frame' = Return(frame, p, IF cached THEN "cached" ELSE "success")
    /\ UNCHANGED <<now, next_uid, status_table, cache_table, calculator,
                   rpi_table, s3_objects, trace, last_call,
                   saga_table, saga_call,
                   next_event, event_store, event_buses, publish_call, engine, request>>

\* line 626
MarkStart(p, fails) ==
    /\ frame[p].pc = "mark_start"
    /\ mark_calculation_start(p, frame[p].calculation_date, fails)
    /\ frame' = Goto(p, "load_matches")
    /\ trace' = StatusWrite([trace EXCEPT ![p].start_written = ~fails],
                             p, fails)
    /\ UNCHANGED <<now, rpi_table, s3_objects, invoked, last_call,
                   saga_table, saga_call,
                   next_event, event_store, event_buses, publish_call, engine, request>>

\* lines 629-631: load_matches_from_dynamodb, n = len(self.matches)
LoadMatches(p, n, fails) ==
    /\ frame[p].pc = "load_matches"
    /\ calculator' = IF fails THEN calculator
                     ELSE [calculator EXCEPT ![p].matches = n]
    /\ frame' = IF fails THEN Return(frame, p, "raised")
                ELSE IF n = 0 THEN Goto(p, "complete_empty")
                ELSE Goto(p, "records")
    /\ trace' = Raised(p, fails, "load_matches_from_dynamodb")
    /\ UNCHANGED <<now, next_uid, status_table, cache_table, rpi_table,
                   s3_objects, invoked, last_call,
                   saga_table, saga_call,
                   next_event, event_store, event_buses, publish_call, engine, request>>

\* lines 633-640
MarkCompleteEmpty(p, fails) ==
    /\ frame[p].pc = "complete_empty"
    /\ mark_calculation_complete(p, frame[p].calculation_date, 0, 0, fails)
    /\ frame' = Return(frame, p, "no_matches")
    /\ trace' = StatusWrite(trace, p, fails)
    /\ UNCHANGED <<now, rpi_table, s3_objects, invoked, last_call,
                   saga_table, saga_call,
                   next_event, event_store, event_buses, publish_call, engine, request>>

\* what a progress write that reached the store adds to the trace
LogProgress(p, written, matches, teams) ==
    IF written
    THEN [trace EXCEPT ![p].progress_prev = trace[p].progress_last,
                       ![p].progress_last = <<matches, teams>>,
                       ![p].progress_writes = trace[p].progress_writes + 1]
    ELSE StatusWrite(trace, p, TRUE)

Min(a, b) == IF a < b THEN a ELSE b

\* lines 278-319: one iteration of the loop of
\* calculate_team_records_optimized.  new_teams is the number of teams of
\* the match that are not yet in team_records (the two teams of a match
\* are distinct).
ProcessMatch(p, new_teams, fails) ==
    LET i == frame[p].match_index
        teams == frame[p].team_records + new_teams
        report == (i + 1) % ProgressInterval = 0
    IN
    /\ frame[p].pc = "records"
    /\ i < calculator[p].matches
    /\ frame[p].team_records + new_teams >= 2
    /\ frame' = [frame EXCEPT ![p].match_index = i + 1,
                              ![p].team_records = teams]
    /\ IF report
       THEN /\ update_calculation_progress(p,
                   DateFromCalculationId(calculator[p].calculation_id),
                   i + 1, teams, fails)
            /\ trace' = LogProgress(p, ~fails, i + 1, teams)
       ELSE UNCHANGED <<next_uid, calculator, status_table, cache_table,
                        trace>>
    /\ UNCHANGED <<now, rpi_table, s3_objects, invoked, last_call,
                   saga_table, saga_call,
                   next_event, event_store, event_buses, publish_call, engine, request>>

\* line 321: self.teams = team_records
FinishRecords(p) ==
    /\ frame[p].pc = "records"
    /\ frame[p].match_index = calculator[p].matches
    /\ calculator' = [calculator EXCEPT ![p].teams = frame[p].team_records]
    /\ frame' = Goto(p, "rpi")
    /\ UNCHANGED <<now, next_uid, status_table, cache_table, rpi_table,
                   s3_objects, invoked, trace, last_call,
                   saga_table, saga_call,
                   next_event, event_store, event_buses, publish_call, engine, request>>

\* lines 420-478: one batch of calculate_all_rpi_optimized and its progress
\* update
CalculateBatch(p, fails) ==
    LET done == frame[p].rpi_results
        rows == done + Min(team_batch_size, calculator[p].teams - done)
    IN
    /\ frame[p].pc = "rpi"
    /\ done < calculator[p].teams
    /\ update_calculation_progress(p,
            DateFromCalculationId(calculator[p].calculation_id),
            calculator[p].matches, rows, fails)
    /\ trace' = LogProgress(p, ~fails, calculator[p].matches, rows)
    /\ frame' = [frame EXCEPT ![p].rpi_results = rows]
    /\ UNCHANGED <<now, rpi_table, s3_objects, invoked, last_call,
                   saga_table, saga_call,
                   next_event, event_store, event_buses, publish_call, engine, request>>

\* lines 480-487 and 648, 662: sort, rank, `if rpi_results:`
FinishRpi(p) ==
    /\ frame[p].pc = "rpi"
    /\ frame[p].rpi_results = calculator[p].teams
    /\ frame' = IF frame[p].rpi_results > 0 THEN Goto(p, "mark_complete")
                ELSE Return(frame, p, "success")
    /\ UNCHANGED <<now, next_uid, status_table, cache_table, calculator,
                   rpi_table, s3_objects, invoked, trace, last_call,
                   saga_table, saga_call,
                   next_event, event_store, event_buses, publish_call, engine, request>>

\* line 650, had mark_calculation_complete no `except` of its own
MarkComplete_propagates(p, fails) ==
    /\ frame[p].pc = "mark_complete"
    /\ mark_calculation_complete(p, frame[p].calculation_date,
                                 calculator[p].matches, frame[p].rpi_results,
                                 fails)
    /\ frame' = IF fails THEN Return(frame, p, "raised")
                ELSE Goto(p, "save_cache")
    /\ trace' = StatusWrite(Raised(p, fails, "mark_calculation_complete"),
                            p, fails)
    /\ UNCHANGED <<now, rpi_table, s3_objects, invoked, last_call,
                   saga_table, saga_call,
                   next_event, event_store, event_buses, publish_call, engine, request>>

\* line 650
MarkComplete(p, fails) ==
    /\ frame[p].pc = "mark_complete"
    /\ mark_calculation_complete(p, frame[p].calculation_date,
                                 calculator[p].matches, frame[p].rpi_results,
                                 fails)
    /\ frame' = Goto(p, "save_cache")
    /\ trace' = StatusWrite(trace, p, fails)
    /\ UNCHANGED <<now, rpi_table, s3_objects, invoked, last_call,
                   saga_table, saga_call,
                   next_event, event_store, event_buses, publish_call, engine, request>>

\* line 653
SaveCache(p, fails) ==
    /\ frame[p].pc = "save_cache"
    /\ save_cached_calculation(p, frame[p].calculation_date,
                               frame[p].rpi_results, fails)
    /\ frame' = Goto(p, "store_db")
    /\ UNCHANGED <<now, rpi_table, s3_objects, invoked, trace, last_call,
                   saga_table, saga_call,
                   next_event, event_store, event_buses, publish_call, engine, request>>

\* ------------------------------------------------------------ environment
Tick ==
    /\ now < MaxHour
    /\ now' = now + 1
    /\ UNCHANGED <<next_uid, status_table, cache_table, calculator, frame,
                   rpi_table, s3_objects, invoked, trace, last_call,
                   saga_table, saga_call,
                   next_event, event_store, event_buses, publish_call, engine, request>>

\* an invocation lasts minutes: the hour changes before or after it, not
\* within it
TickBetweenInvocations ==
    /\ \A p \in Invocations : frame[p].pc \in {"init", "done"}
    /\ Tick

\* line 88: an item whose ttl has passed may be deleted by the store
ExpireRun(key) ==
    /\ key \in DOMAIN status_table
    /\ status_table[key].ttl # -1
    /\ status_table[key].ttl <= now
    /\ status_table' = [k \in DOMAIN status_table \ {key} |-> status_table[k]]
    /\ UNCHANGED <<now, next_uid, cache_table, calculator, frame, rpi_table,
                   s3_objects, invoked, trace, last_call,
                   saga_table, saga_call,
                   next_event, event_store, event_buses, publish_call, engine, request>>

\* ------------------------------------------------- CalculationEventHandler
\* Events name a run by (calculation_date, calculation_id); they may be about
\* any run the table has seen or about a run started elsewhere, and the bus
\* may deliver them in any order and more than once.
EventKeys ==
    {k \in DOMAIN status_table : k.calculation_date.fmt = "iso"}
        \cup {StatusKey(IsoDate(now), ExtId)}

\* event_handlers.py lines 59-81
handle_calculation_started(key, fails) ==
    /\ status_table' =
          IF fails THEN status_table
          ELSE PutItem(status_table, key,
                       [BlankItem EXCEPT !.status = "in_progress",
                                         !.matches_processed = 0,
                                         !.teams_calculated = 0])
    /\ UNCHANGED <<now, next_uid, cache_table, calculator, frame, rpi_table,
                   s3_objects, invoked, trace, last_call,
                   saga_table, saga_call,
                   next_event, event_store, event_buses, publish_call, engine, request>>

\* event_handlers.py lines 83-142
handle_calculation_completed(key, total_teams, fails) ==
    /\ status_table' =
          IF fails THEN status_table
          ELSE PutItem(status_table, key,
                       [OldItem(status_table, key) EXCEPT
                            !.status = "completed",
                            !.total_teams = total_teams])
    /\ invoked' =
          IF fails THEN invoked
          ELSE invoked \cup
               {[function |-> fn, calculation_date |-> key.calculation_date,
                 trigger |-> "calculation_completed"] :
                    fn \in {"gist_publisher", "cache_updater"}}
    /\ UNCHANGED <<now, next_uid, cache_table, calculator, frame, rpi_table,
                   s3_objects, trace, last_call,
                   saga_table, saga_call,
                   next_event, event_store, event_buses, publish_call, engine, request>>

\* --------------------------------------------------------- specification
Handler(p) ==
    \/ \E fails \in BOOLEAN : CheckStatus(p, fails)
    \/ \E fails \in BOOLEAN : LoadCacheCheck(p, fails)
    \/ \E fails \in BOOLEAN : LoadCacheGet(p, fails)
    \/ \E fails \in BOOLEAN : MarkStart(p, fails)
    \/ \E fails \in BOOLEAN : MarkCompleteEmpty(p, fails)
    \/ \E k \in 0..2, fails \in BOOLEAN : ProcessMatch(p, k, fails)
    \/ FinishRecords(p)
    \/ \E fails \in BOOLEAN : CalculateBatch(p, fails)
    \/ FinishRpi(p)
    \/ \E fails \in BOOLEAN : MarkComplete(p, fails)
    \/ \E fails \in BOOLEAN : SaveCache(p, fails)
    \/ \E fails \in BOOLEAN : StoreResultsInDynamoDB(p, fails)
    \/ \E fails \in BOOLEAN : StoreResultsInS3(p, fails)
    \/ \E fails \in BOOLEAN : TriggerGistPublisher(p, fails)

Invoke(p) ==
    \/ Handler(p)
    \/ \E n \in 0..MaxMatches, fails \in BOOLEAN : LoadMatches(p, n, fails)

\* invocations of the rpi_calculator handler that run within the same hour,
\* one after the other or interleaved
Next ==
    \E p \in Invocations : Invoke(p)

Spec == Init /\ [][Next]_vars

\* one invocation of the handler next to the event handlers
NextEvents ==
    \/ Invoke(1)
    \/ TickBetweenInvocations
    \/ \E key \in DOMAIN status_table : ExpireRun(key)
    \/ \E key \in EventKeys, fails \in BOOLEAN :
            handle_calculation_started(key, fails)
    \/ \E key \in EventKeys, fails \in BOOLEAN :
            handle_calculation_completed(key, 0, fails)

SpecEvents == Init /\ [][NextEvents]_vars

\* ------------------------------------------- direct use of RPICalculator
\* A caller holds one calculator object and calls its public methods, in any
\* order, with the current period.  last_call records what the latest call
\* found in the tables and what it did.

RunStatus(table, key) ==
    IF key \in DOMAIN table THEN table[key].status ELSE "absent"

Counters(table, key) ==
    IF key \in DOMAIN table
    THEN <<table[key].matches_processed, table[key].teams_calculated>>
    ELSE <<-1, -1>>

Observe(op, date, fails) ==
    LET key == StatusKey(date, calculator[ApiCaller].calculation_id) IN
    [op |-> op, date |-> date,
     pre_in_progress |-> InProgressKeys(status_table, date) # {},
     pre_completed |-> RunStatus(status_table, key) = "completed",
     pre_entry |-> date \in DOMAIN cache_table,
     pre_age |-> IF date \in DOMAIN cache_table
                 THEN now - cache_table[date].timestamp ELSE -1,
     failed |-> fails, result |-> NoResults, changed |-> FALSE]

ApiUnchanged == UNCHANGED <<now, frame, rpi_table, s3_objects, invoked, trace,
                            saga_table, saga_call,
                            next_event, event_store, event_buses, publish_call, engine, request>>

ApiMarkStart(fails) ==
    /\ next_uid <= MaxApiRuns
    /\ mark_calculation_start(ApiCaller, IsoDate(now), fails)
    /\ last_call' = [Observe("mark_calculation_start", IsoDate(now), fails)
                        EXCEPT !.changed = status_table' # status_table]
    /\ ApiUnchanged

ApiUpdateProgress(matches, teams, fails) ==
    LET date == IsoDate(now)
        key == StatusKey(date, calculator[ApiCaller].calculation_id)
    IN
    /\ update_calculation_progress(ApiCaller, date, matches, teams, fails)
    /\ last_call' = [Observe("update_calculation_progress", date, fails)
                        EXCEPT !.changed = Counters(status_table', key)
                                            # Counters(status_table, key)]
    /\ ApiUnchanged

ApiMarkComplete(matches, teams, fails) ==
    /\ mark_calculation_complete(ApiCaller, IsoDate(now), matches, teams,
                                 fails)
    /\ last_call' = [Observe("mark_calculation_complete", IsoDate(now), fails)
                        EXCEPT !.changed = status_table' # status_table]
    /\ ApiUnchanged

ApiSaveCached(rows, fails) ==
    /\ save_cached_calculation(ApiCaller, IsoDate(now), rows, fails)
    /\ last_call' = [Observe("save_cached_calculation", IsoDate(now), fails)
                        EXCEPT !.changed = cache_table' # cache_table]
    /\ ApiUnchanged

ApiLoadCached(query_fails, get_fails) ==
    /\ last_call' = [Observe("load_cached_calculation", IsoDate(now),
                             get_fails)
                        EXCEPT !.result =
                            load_cached_calculation(status_table, cache_table,
                                IsoDate(now), now, query_fails, get_fails)]
    /\ UNCHANGED <<next_uid, calculator, status_table, cache_table>>
    /\ ApiUnchanged

NextApi ==
    \/ \E fails \in BOOLEAN : ApiMarkStart(fails)
    \/ \E n \in 1..MaxRows, fails \in BOOLEAN :
            ApiUpdateProgress(n, n, fails)
    \/ \E fails \in BOOLEAN : ApiMarkComplete(MaxRows, MaxRows, fails)
    \/ \E rows \in 0..MaxRows, fails \in BOOLEAN : ApiSaveCached(rows, fails)
    \/ \E query_fails \in BOOLEAN, get_fails \in BOOLEAN :
            ApiLoadCached(query_fails, get_fails)
    \/ Tick
    \/ \E key \in DOMAIN status_table : ExpireRun(key)

SpecApi == Init /\ [][NextApi]_vars

\* ------------------------------------------------ one run on a long list
\* One invocation whose match list is long enough for the progress report of
\* calculate_team_records_optimized to be written.
ProgressMatchCounts ==
    {0, ProgressInterval - 1, ProgressInterval,
     ProgressInterval + MaxExtraMatches}

NextProgress ==
    \/ Handler(1)
    \/ \E n \in ProgressMatchCounts, fails \in BOOLEAN :
            LoadMatches(1, n, fails)

SpecProgress == Init /\ [][NextProgress]_vars

\* ------------------------------------------------- use of SagaCoordinator
PublisherUnchanged ==
    UNCHANGED <<next_event, event_store, event_buses, publish_call>>

EngineUnchanged == UNCHANGED engine

RequestUnchanged == UNCHANGED request

SagaUnchanged == UNCHANGED <<saga_table, saga_call>>

RpiUnchanged ==
    UNCHANGED <<now, next_uid, status_table, cache_table, calculator, frame,
                rpi_table, s3_objects, invoked, trace, last_call>>

\* lines 25-46: put_item of a saga under a fresh uuid
StartSaga(fails) ==
    /\ TheSaga \notin DOMAIN saga_table
    /\ saga_table' = IF fails THEN saga_table ELSE TheSaga :> NewSaga
    /\ saga_call' = [NoSagaCall EXCEPT !.op = "start_saga",
                                       !.store_down = fails,
                                       !.raised = IF fails THEN "ClientError"
                                                  ELSE "none"]
    /\ RpiUnchanged
    /\ PublisherUnchanged
    /\ EngineUnchanged /\ RequestUnchanged

\* lines 48-72: update_item, steps = list_append(steps, :step); the update
\* is rejected when the item has no steps attribute
AddStep(step_name, compensation_function, fails) ==
    LET raises == fails \/ TheSaga \notin DOMAIN saga_table IN
    /\ saga_table' =
          IF raises THEN saga_table
          ELSE [saga_table EXCEPT ![TheSaga].steps =
                    Append(@, NewStep(step_name, compensation_function))]
    /\ saga_call' = [NoSagaCall EXCEPT !.op = "add_step",
                                       !.store_down = fails,
                                       !.raised = IF raises THEN "ClientError"
                                                  ELSE "none"]
    /\ RpiUnchanged
    /\ PublisherUnchanged
    /\ EngineUnchanged /\ RequestUnchanged

\* the status of the step a call with step_index addresses
StepStatus(table, step_index) ==
    IF TheSaga \in DOMAIN table
        /\ step_index \in 0 .. Len(table[TheSaga].steps) - 1
    THEN table[TheSaga].steps[step_index + 1].status
    ELSE "none"

\* lines 74-115 (and 333): one call of execute_step with everything it
\* calls, the recursion into the later steps included
ExecuteStep(step_index, raising, rollback_raising, store_down) ==
    LET env == [raising |-> raising, rollback_raising |-> rollback_raising,
                store_down |-> store_down]
        r == execute_step(NewRun(saga_table), step_index, env)
    IN
    /\ saga_table' = r.table
    /\ saga_call' =
          [op |-> "execute_step", step_index |-> step_index,
           step_was |-> StepStatus(saga_table, step_index),
           store_down |-> store_down,
           dispatched |-> r.dispatched, compensated |-> r.compensated,
           raised |-> r.raised, first_raised |-> r.first_raised,
           failed_at |-> r.failed_at,
           rollback_errors |-> r.rollback_errors]
    /\ RpiUnchanged
    /\ PublisherUnchanged
    /\ EngineUnchanged /\ RequestUnchanged

\* the indexes a call on the saga as it is can tell apart: one below the
\* list and two beyond it
StepIndexes(table) ==
    IF TheSaga \in DOMAIN table
    THEN -1 .. Len(table[TheSaga].steps) + 1
    ELSE {0}

\* the handler failures a call with step_index can meet: none, or the
\* handler of one of the steps from step_index on raises
Raising(table, step_index) ==
    IF TheSaga \in DOMAIN table /\ step_index >= 0
    THEN {{}} \cup {{k} : k \in step_index .. Len(table[TheSaga].steps) - 1}
    ELSE {{}}

\* the caller stops adding steps at `limit`
CanAddStep(limit) ==
    TheSaga \in DOMAIN saga_table => Len(saga_table[TheSaga].steps) < limit

\* calls on the coordinator in any order and with any index
NextSaga ==
    \/ \E fails \in BOOLEAN : StartSaga(fails)
    \/ \E input \in StepInputs, fails \in BOOLEAN :
            CanAddStep(MaxSteps) /\ AddStep(input[1], input[2], fails)
    \/ \E step_index \in StepIndexes(saga_table),
          rollback_raising \in BOOLEAN :
            \E raising \in Raising(saga_table, step_index) :
                ExecuteStep(step_index, raising, rollback_raising, FALSE)
    \/ \E step_index \in StepIndexes(saga_table) :
            ExecuteStep(step_index, {}, FALSE, TRUE)

SpecSaga == Init /\ [][NextSaga]_vars

\* lines 305-325: a saga is started, its steps are added and it is run once
\* from its first step
AllPending ==
    /\ TheSaga \in DOMAIN saga_table
    /\ saga_table[TheSaga].status = "started"
    /\ \A i \in DOMAIN saga_table[TheSaga].steps :
            saga_table[TheSaga].steps[i].status = "pending"

NextSagaRun ==
    \/ \E fails \in BOOLEAN : StartSaga(fails)
    \/ \E input \in StepInputs, fails \in BOOLEAN :
            /\ CanAddStep(MaxRunSteps)
            /\ AllPending
            /\ AddStep(input[1], input[2], fails)
    \/ \E raising \in Raising(saga_table, 0),
          rollback_raising \in BOOLEAN, store_down \in BOOLEAN :
            /\ AllPending
            /\ ExecuteStep(0, raising, rollback_raising, store_down)

SpecSagaRun == Init /\ [][NextSagaRun]_vars

\* -------------------------------------------------- use of EventPublisher
\* lines 28-53, had the bus publish come before the store write
publish_event_bus_first(event_type, bus_name, store_fails, bus_fails) ==
    LET event == Envelope(next_event, event_type)
        bus == ChosenBus(bus_name)
    IN
    /\ next_event <= MaxEvents
    /\ next_event' = next_event + 1
    /\ event_buses' = IF bus_fails THEN event_buses
                      ELSE event_buses \cup {BusEntry(event, bus)}
    /\ event_store' = IF bus_fails \/ store_fails THEN event_store
                      ELSE event_store \cup {event}
    /\ publish_call' =
          [returned |-> IF store_fails \/ bus_fails THEN NoEvent
                        ELSE event.event_id,
           event_id |-> event.event_id, bus |-> bus,
           raised |-> IF bus_fails THEN "_publish_to_bus"
                      ELSE IF store_fails THEN "_store_event" ELSE "none"]
    /\ RpiUnchanged /\ SagaUnchanged /\ EngineUnchanged /\ RequestUnchanged

\* lines 28-53: _store_event, then _publish_to_bus; both re-raise what the
\* put_item or the put_events raises
publish_event(event_type, bus_name, store_fails, bus_fails) ==
    LET event == Envelope(next_event, event_type)
        bus == ChosenBus(bus_name)
    IN
    /\ next_event <= MaxEvents
    /\ next_event' = next_event + 1
    /\ event_store' = IF store_fails THEN event_store
                      ELSE event_store \cup {event}
    /\ event_buses' = IF store_fails \/ bus_fails THEN event_buses
                      ELSE event_buses \cup {BusEntry(event, bus)}
    /\ publish_call' =
          [returned |-> IF store_fails \/ bus_fails THEN NoEvent
                        ELSE event.event_id,
           event_id |-> event.event_id, bus |-> bus,
           raised |-> IF store_fails THEN "_store_event"
                      ELSE IF bus_fails THEN "_publish_to_bus" ELSE "none"]
    /\ RpiUnchanged /\ SagaUnchanged /\ EngineUnchanged /\ RequestUnchanged

NextPublisher ==
    \E event_type \in EventTypes, bus_name \in BusNames,
       store_fails \in BOOLEAN, bus_fails \in BOOLEAN :
        publish_event(event_type, bus_name, store_fails, bus_fails)

SpecPublisher == Init /\ [][NextPublisher]_vars

\* ---------------------------------------------- use of the rating engine
OutsideEngine ==
    /\ RpiUnchanged /\ SagaUnchanged /\ PublisherUnchanged
    /\ RequestUnchanged

\* lines 629 and 225-269: self.matches = the completed matches of the range
load_matches_from_dynamodb(matches) ==
    /\ engine.stage \in {"new", "rated"}
    /\ engine' = [engine EXCEPT !.matches = matches, !.stage = "loaded",
                                !.results = <<>>,
                                !.reused = engine.stage = "rated"]
    /\ OutsideEngine

\* line 643: calculator.calculate_team_records_optimized()
CalculateTeamRecords ==
    LET records == calculate_team_records_optimized(engine.matches, 1,
                        [team_list |-> <<>>, teams |-> NewEngine.teams])
    IN
    /\ engine.stage = "loaded"
    /\ engine' = [engine EXCEPT !.team_list = records.team_list,
                                !.teams = records.teams,
                                !.stage = "records"]
    /\ OutsideEngine

\* line 646: rpi_results = calculator.calculate_all_rpi_optimized()
CalculateAllRpi ==
    /\ engine.stage = "records"
    /\ engine' = [engine EXCEPT
            !.results = calculate_all_rpi_optimized(engine.cache,
                            engine.team_list, engine.teams),
            !.cache = CacheAfter(engine.cache, engine.teams),
            !.stage = "rated"]
    /\ OutsideEngine

\* one run on a new RPICalculator, as lambda_handler makes it
NextEngine ==
    \/ /\ engine.stage = "new"
       /\ \E matches \in MatchLists(MaxEngineMatches) :
                load_matches_from_dynamodb(matches)
    \/ CalculateTeamRecords
    \/ CalculateAllRpi

SpecEngine == Init /\ [][NextEngine]_vars

\* two runs on one RPICalculator
NextEngineReuse ==
    \/ /\ engine.stage \in {"new", "rated"} /\ ~engine.reused
       /\ \E matches \in MatchLists(MaxReuseMatches) :
                load_matches_from_dynamodb(matches)
    \/ CalculateTeamRecords
    \/ CalculateAllRpi

SpecEngineReuse == Init /\ [][NextEngineReuse]_vars

\* -------------------------- use of send_request_with_rate_limit_handling
\* lines 7-10: the call and the first test of the loop condition
send_request_with_rate_limit_handling(max_retries) ==
    /\ request.pc = "idle"
    /\ request' = [NoRequest EXCEPT
            !.max_retries = max_retries,
            !.current_delay = retry_delay,
            !.pc = IF 0 < max_retries THEN "loop" ELSE "raised",
            !.raised = IF 0 < max_retries THEN "none" ELSE "ConnectionError"]
    /\ RpiUnchanged /\ SagaUnchanged /\ PublisherUnchanged /\ EngineUnchanged

\* lines 10-27: one iteration of the loop, with the test of the loop
\* condition that follows it and the raise after the loop
Iteration(outcome) ==
    LET retries == request.retries + 1
        sent == [request EXCEPT !.attempts = @ + 1,
                                !.status_code = outcome.status_code]
    IN
    /\ request.pc = "loop"
    /\ request.attempts < MaxAttempts
    /\ request' =
          IF outcome.kind = "response"
          THEN IF outcome.status_code = TooManyRequests
               THEN IF wait_time(outcome.retry_after) < 0
                    THEN [sent EXCEPT !.pc = "raised", !.raised = "ValueError"]
                    ELSE [sent EXCEPT
                            !.slept = wait_time(outcome.retry_after)]
               ELSE [sent EXCEPT !.pc = "returned"]
          ELSE IF outcome.kind \in {"ConnectionError", "RemoteDisconnected"}
               THEN [sent EXCEPT
                        !.slept = request.current_delay,
                        !.retries = retries,
                        !.current_delay = 2 * request.current_delay,
                        !.pc = IF retries < request.max_retries THEN "loop"
                               ELSE "raised",
                        !.raised = IF retries < request.max_retries
                                   THEN "none" ELSE "ConnectionError"]
               ELSE [sent EXCEPT !.pc = "raised", !.raised = outcome.kind]
    /\ RpiUnchanged /\ SagaUnchanged /\ PublisherUnchanged /\ EngineUnchanged

NextRequest ==
    \/ \E max_retries \in 0 .. MaxRetries :
            send_request_with_rate_limit_handling(max_retries)
    \/ \E outcome \in ServerOutcomes : Iteration(outcome)

SpecRequest == Init /\ [][NextRequest]_vars

\* ================================================================= claims

\* C1: for every period, at most one item of the status table has status
\* in_progress, under any interleaving of handler invocations.
C1_AtMostOneInProgress ==
    \A k1 \in DOMAIN status_table, k2 \in DOMAIN status_table :
        (/\ k1.calculation_date = k2.calculation_date
         /\ status_table[k1].status = "in_progress"
         /\ status_table[k2].status = "in_progress") => k1 = k2

\* C2: an invocation whose conflict check ran (without a store error) while
\* an in_progress item of its period was in the table is rejected and creates
\* no run; one whose check found no such item is not rejected.
C2_SequentialDoubleStart ==
    \A p \in Invocations :
        (frame[p].pc # "init" /\ ~trace[p].check_failed) =>
            /\ trace[p].seen_in_progress =>
                  /\ frame[p].response = "in_progress"
                  /\ calculator[p].calculation_id = NoId
            /\ ~trace[p].seen_in_progress =>
                  frame[p].response # "in_progress"

\* C3: the conflict check is not atomic with the start write.  Two
\* invocations of one period that each ran the check before the other wrote
\* its start item both get a run of their own: two distinct items, both
\* in_progress until one of the runs is marked complete.
Raced(p, q) ==
    /\ p # q
    /\ trace[p].start_written /\ trace[q].start_written
    /\ q \notin trace[p].started_at_check
    /\ p \notin trace[q].started_at_check
    /\ frame[p].calculation_date = frame[q].calculation_date

RunKey(p) == StatusKey(frame[p].calculation_date, calculator[p].calculation_id)

C3_RaceStartsTwoRuns ==
    \A p \in Invocations, q \in Invocations :
        Raced(p, q) =>
            /\ RunKey(p) # RunKey(q)
            /\ {RunKey(p), RunKey(q)} \subseteq DOMAIN status_table
            /\ (/\ calculator[p].is_calculation_in_progress
                /\ calculator[q].is_calculation_in_progress) =>
                  Cardinality(InProgressKeys(status_table,
                                  frame[p].calculation_date)) >= 2

C3_Witness ==
    \E p \in Invocations, q \in Invocations :
        /\ Raced(p, q)
        /\ ~trace[p].seen_in_progress /\ ~trace[q].seen_in_progress
        /\ Cardinality(InProgressKeys(status_table,
                           frame[p].calculation_date)) >= 2

\* C4: an invocation whose conflict-check query raised while another run of
\* the period was in_progress does not create a run.
C4_FailedCheckBlocksStart ==
    \A p \in Invocations :
        (trace[p].check_failed /\ trace[p].seen_in_progress) =>
            /\ calculator[p].calculation_id = NoId
            /\ ~trace[p].start_written

\* C5: load_cached_calculation returns None whenever an item of the period
\* is in_progress, whatever the cache holds.
C5_NoCacheWhileInProgress ==
    (last_call.op = "load_cached_calculation" /\ last_call.pre_in_progress)
        => last_call.result = NoResults

\* C6: load_cached_calculation returns results only when the cache read
\* succeeded on an entry younger than the freshness window, and then returns
\* the entry's results.
C6_FreshCacheOnly ==
    (last_call.op = "load_cached_calculation"
        /\ last_call.result # NoResults) =>
            /\ last_call.pre_entry
            /\ last_call.pre_age < FreshnessHours
            /\ ~last_call.failed
            /\ last_call.result = json_loads(cache_table[last_call.date].data)

C6_Witness ==
    /\ last_call.op = "load_cached_calculation"
    /\ last_call.pre_entry /\ last_call.pre_age = 0
    /\ last_call.result # NoResults

\* C7: save_cached_calculation writes nothing when the calculator's run is
\* not completed in the status table at the time of the call.
C7_SaveOnlyWhenCompleted ==
    (last_call.op = "save_cached_calculation" /\ ~last_call.pre_completed)
        => ~last_call.changed

\* C8: the (matches_processed, teams_calculated) pairs one run writes never
\* decrease in either counter.
C8_ProgressMonotonic ==
    \A p \in Invocations :
        /\ trace[p].progress_prev[1] <= trace[p].progress_last[1]
        /\ trace[p].progress_prev[2] <= trace[p].progress_last[2]

\* C9: update_calculation_progress on a run that is completed changes
\* neither counter of the run's item.
C9_NoProgressAfterComplete ==
    (last_call.op = "update_calculation_progress" /\ last_call.pre_completed)
        => ~last_call.changed

\* C10: no step takes an item from completed or failed back to in_progress.
C10_NoReturnToInProgress ==
    [][\A k \in DOMAIN status_table :
         (status_table[k].status \in {"completed", "failed"}
             /\ k \in DOMAIN status_table')
                => status_table'[k].status # "in_progress"]_vars

\* C11: an invocation in which a status write of mark_calculation_start,
\* update_calculation_progress or mark_calculation_complete raised does not
\* end with that error: if it raises at all, the exception comes from the
\* match load or from a result sink, and otherwise it returns success, with
\* the ratings of the loaded matches written to both result sinks.
ResultSinkCalls ==
    {"store_rpi_results_in_dynamodb_atomic",
     "store_rpi_results_in_s3_optimized"}

C11_StatusErrorsNotPropagated ==
    \A p \in Invocations :
        (trace[p].status_write_failed /\ frame[p].pc = "done") =>
            IF frame[p].response = "raised"
            THEN trace[p].raised_by \in
                    ResultSinkCalls \cup {"load_matches_from_dynamodb"}
            ELSE /\ frame[p].response \in {"success", "no_matches"}
                 /\ frame[p].rpi_results = calculator[p].teams
                 /\ calculator[p].matches > 0 =>
                       /\ frame[p].rpi_results > 0
                       /\ RunKey(p) \in rpi_table
                       /\ RunKey(p) \in s3_objects

C11_Witness ==
    \E p \in Invocations :
        /\ trace[p].status_write_failed
        /\ ~trace[p].start_written
        /\ calculator[p].is_calculation_in_progress
        /\ trace[p].progress_writes = 0
        /\ frame[p].response = "success"
        /\ RunKey(p) \in rpi_table \cap s3_objects

Steps == IF TheSaga \in DOMAIN saga_table THEN saga_table[TheSaga].steps
         ELSE <<>>

SagaStatus == IF TheSaga \in DOMAIN saga_table THEN saga_table[TheSaga].status
              ELSE "absent"

\* the latest call was execute_step and its first exception was `exc`
StepFailed(exc) ==
    saga_call.op = "execute_step" /\ saga_call.first_raised = exc

Range(seq) == {seq[i] : i \in DOMAIN seq}

\* the steps below position k that are completed and declare a compensation
Compensable(k) ==
    {i \in 0 .. k - 1 :
        /\ i < Len(Steps)
        /\ Steps[i + 1].status = "completed"
        /\ Steps[i + 1].compensation_function # NoFunction}

\* the positions of `set` in decreasing order
RECURSIVE Decreasing(_)
Decreasing(set) ==
    IF set = {} THEN <<>>
    ELSE LET top == CHOOSE i \in set : \A j \in set : j <= i
         IN <<top>> \o Decreasing(set \ {top})

\* C13: in every state of the saga, a step that is running or completed has
\* a completed step before it (or is the first step).
C13_StrictlySequential ==
    \A i \in 1 .. Len(Steps) - 1 :
        Steps[i + 1].status \in {"running", "completed"}
            => Steps[i].status = "completed"

\* C14: when the handler of step k raised in a run started with
\* execute_step(saga_id, 0), the saga is failed and its failed_step is k.
C14_FailedStepRecorded ==
    (StepFailed("InvokeError") /\ saga_call.step_index = 0) =>
        /\ SagaStatus = "failed"
        /\ saga_table[TheSaga].failed_step = saga_call.failed_at

\* C15: when the handler of step k raised, the compensations invoked are
\* the completed steps below k that declare a compensation, once each, from
\* the highest position down.
C15_CompensationOrder ==
    StepFailed("InvokeError") =>
        \A k \in saga_call.failed_at :
            saga_call.compensated = Decreasing(Compensable(k))

\* C16: on a saga of n >= 1 steps, execute_step(saga_id, 0) whose store is
\* up, whose steps all have a handler and whose handlers all return, returns
\* after dispatching the handlers of steps 0 .. n-1 once each in that order,
\* with every step completed and the saga completed.
C16_RunCompletesAllSteps ==
    (/\ saga_call.op = "execute_step"
     /\ saga_call.step_index = 0
     /\ Len(Steps) >= 1
     /\ saga_call.first_raised \notin
            {"ClientError", "ValueError: Unknown step", "InvokeError"}) =>
        /\ saga_call.raised = "none"
        /\ saga_call.dispatched = [i \in 1 .. Len(Steps) |-> i - 1]
        /\ \A i \in DOMAIN Steps : Steps[i].status = "completed"
        /\ SagaStatus = "completed"

C16_Witness ==
    /\ saga_call.op = "execute_step"
    /\ saga_call.step_index = 0
    /\ saga_call.raised = "none"
    /\ saga_call.dispatched = <<0, 1>>
    /\ SagaStatus = "completed"

\* C17: execute_step on an existing saga with an index outside
\* 0 .. len(steps)-1 (the store being up) raises a range error and
\* dispatches no handler.
RangeErrors == {"ValueError: Step index out of range", "IndexError"}

C17_OutOfRangeRejected ==
    (/\ saga_call.op = "execute_step"
     /\ TheSaga \in DOMAIN saga_table
     /\ ~saga_call.store_down
     /\ saga_call.step_index \notin 0 .. Len(Steps) - 1) =>
        /\ saga_call.raised \in RangeErrors
        /\ saga_call.dispatched = <<>>

\* C18: when an execute_step call (store up, no handler raising on the way)
\* reaches a step whose name has no handler, it raises the unknown-step
\* error, the saga is failed, every completed step before it that declares
\* a compensation is compensated, the step itself is not completed and no
\* handler is dispatched for it or for a later step.
ReachesUnknownStep(k) ==
    /\ saga_call.op = "execute_step"
    /\ ~saga_call.store_down
    /\ saga_call.step_index \in 0 .. k
    /\ Steps[k + 1].step_name \notin KnownSteps
    /\ \A j \in saga_call.step_index .. k - 1 :
            Steps[j + 1].step_name \in KnownSteps
    /\ saga_call.first_raised # "InvokeError"

C18_UnknownStepFailsSaga ==
    \A k \in 0 .. Len(Steps) - 1 :
        ReachesUnknownStep(k) =>
            /\ saga_call.first_raised = "ValueError: Unknown step"
            /\ saga_call.raised = "ValueError: Unknown step"
            /\ saga_call.failed_at = {k}
            /\ SagaStatus = "failed"
            /\ Compensable(k) \subseteq Range(saga_call.compensated)
            /\ Steps[k + 1].status = "running"
            /\ \A j \in Range(saga_call.dispatched) : j < k

C18_Witness ==
    /\ StepFailed("ValueError: Unknown step")
    /\ saga_call.failed_at = {1}
    /\ saga_call.dispatched = <<0>>
    /\ saga_call.compensated # <<>>

\* C19: when a rollback raised during an execute_step call, the call still
\* invokes the compensation of every completed step below the failed one
\* and leaves with the exception that made the step fail.
C19_RollbackErrorsSwallowed ==
    (saga_call.op = "execute_step" /\ saga_call.rollback_errors) =>
        /\ saga_call.raised # "none"
        /\ saga_call.raised = saga_call.first_raised
        /\ \A k \in saga_call.failed_at :
                Compensable(k) \subseteq Range(saga_call.compensated)

C19_Witness ==
    /\ StepFailed("InvokeError")
    /\ saga_call.rollback_errors
    /\ saga_call.failed_at = {2}
    /\ {0, 1} \subseteq Range(saga_call.compensated)
    /\ saga_call.raised = "InvokeError"

\* C20: execute_step on a step that is already completed dispatches no
\* handler and leaves the step completed.
C20_CompletedStepNotRerun ==
    (saga_call.op = "execute_step" /\ saga_call.step_was = "completed") =>
        /\ saga_call.dispatched = <<>>
        /\ StepStatus(saga_table, saga_call.step_index) = "completed"

\* -------------------------------------------------------- publisher claims
\* C21: a publish_event call that returned an event id has left the
\* envelope with that id in the event store and an entry carrying it on the
\* chosen bus; and in every state the envelope of each bus entry is in the
\* event store.
StoredIds == {event.event_id : event \in event_store}

C21_StoredBeforePublished ==
    /\ publish_call.returned # NoEvent =>
            /\ publish_call.returned = publish_call.event_id
            /\ publish_call.returned \in StoredIds
            /\ \E entry \in event_buses :
                    /\ entry.EventBusName = publish_call.bus
                    /\ entry.Detail.json.event_id = publish_call.returned
    /\ \A entry \in event_buses : entry.Detail.json \in event_store

C21_Witness ==
    /\ publish_call.returned # NoEvent
    /\ publish_call.bus # MainBus
    /\ \E event \in event_store :
            /\ event.event_id # publish_call.returned
            /\ \A entry \in event_buses : entry.Detail.json # event

\* ------------------------------------------------ rating engine claims
\* What the match list itself says, computed from self.matches and not from
\* the records the engine keeps.
PlayedBy(team) ==
    {i \in DOMAIN engine.matches :
        team \in {engine.matches[i].home_team, engine.matches[i].away_team}}

Referenced == {team \in Teams : PlayedBy(team) # {}}

DistinctOpponents(team) ==
    {other \in Teams \ {team} : PlayedBy(team) \cap PlayedBy(other) # {}}

WonBy(team) ==
    {i \in PlayedBy(team) :
        LET m == engine.matches[i] IN
        \/ m.home_team = team /\ m.home_score > m.away_score
        \/ m.away_team = team /\ m.away_score > m.home_score}

TiedBy(team) ==
    {i \in PlayedBy(team) :
        engine.matches[i].home_score = engine.matches[i].away_score}

WPof ==
    [team \in Teams |->
        IF PlayedBy(team) = {} THEN Zero
        ELSE Frac(2 * Cardinality(WonBy(team)) + Cardinality(TiedBy(team)),
                  2 * Cardinality(PlayedBy(team)))]

RECURSIVE SumOf(_, _)
SumOf(f, set) ==
    IF set = {} THEN Zero
    ELSE LET t == CHOOSE x \in set : TRUE IN
         FracAdd(f[t], SumOf(f, set \ {t}))

MeanOf(f, set) ==
    IF set = {} THEN Zero ELSE FracDiv(SumOf(f, set), Cardinality(set))

OWPof == [team \in Teams |-> MeanOf(WPof, DistinctOpponents(team))]

OOWPof == [team \in Teams |-> MeanOf(OWPof, DistinctOpponents(team))]

\* position of the first mention of a team in the match list, the home team
\* of a match before its away team
FirstAppearance(team) ==
    LET i == CHOOSE k \in PlayedBy(team) : \A l \in PlayedBy(team) : k <= l
    IN IF engine.matches[i].home_team = team THEN 2 * i - 1 ELSE 2 * i

Rows == {engine.results[i] : i \in DOMAIN engine.results}

Decisions(record) == record.wins + record.losses + record.ties

RECURSIVE TotalDecisions(_, _)
TotalDecisions(teams, set) ==
    IF set = {} THEN 0
    ELSE LET t == CHOOSE x \in set : TRUE IN
         Decisions(teams[t]) + TotalDecisions(teams, set \ {t})

\* C22: after calculate_team_records_optimized the wins, losses and ties of
\* all teams add up to twice the number of matches, and the games list of
\* every team is as long as its wins + losses + ties, repeated pairings
\* included.
C22_RecordsBalance ==
    engine.stage \in {"records", "rated"} =>
        /\ TotalDecisions(engine.teams, DOMAIN engine.teams)
             = 2 * Len(engine.matches)
        /\ \A team \in DOMAIN engine.teams :
                Len(engine.teams[team].games) = Decisions(engine.teams[team])

C22_Witness ==
    /\ engine.stage = "records"
    /\ \E i, j \in DOMAIN engine.matches :
        /\ i < j
        /\ engine.matches[i].home_team = engine.matches[j].home_team
        /\ engine.matches[i].away_team = engine.matches[j].away_team
        /\ engine.matches[j].home_score = engine.matches[j].away_score
    /\ Len(engine.teams["X"].games) = 2

\* C23: the OWP of a team is the unweighted mean of the WP of its distinct
\* opponents, an opponent met several times counting once, and it is 0 for
\* a team without opponents.
C23_OwpOverDistinctOpponents ==
    engine.stage = "rated" =>
        /\ \A row \in Rows : row.owp = OWPof[row.team]
        /\ \A team \in Teams :
                DistinctOpponents(team) = {} =>
                    calculate_owp_cached(engine.cache, engine.teams, team)
                        = Zero

C23_Witness ==
    /\ engine.stage = "rated"
    /\ \E row \in Rows :
        /\ row.total_games > Cardinality(DistinctOpponents(row.team))
        /\ \E a, b \in DistinctOpponents(row.team) : WPof[a] # WPof[b]
        /\ row.owp = OWPof[row.team]

\* C24: the OOWP of a team is the unweighted mean of the OWP of its distinct
\* opponents, where the OWP of an opponent counts its games against the team
\* itself.
C24_OowpOverDistinctOpponents ==
    engine.stage = "rated" =>
        \A row \in Rows : row.oowp = OOWPof[row.team]

C24_Witness ==
    /\ engine.stage = "rated"
    /\ \E row \in Rows :
        \E o \in DistinctOpponents(row.team) :
            /\ \E other \in DistinctOpponents(o) :
                    other # row.team /\ WPof[other] # WPof[row.team]
            /\ row.oowp = OOWPof[row.team]

\* the weighted sum of the three values of one result row
Weighted(row) ==
    FracAdd(FracAdd(FracMul(<<1, 4>>, row.wp), FracMul(<<1, 2>>, row.owp)),
            FracMul(<<1, 4>>, row.oowp))

InUnitInterval(x) == FracLeq(Zero, x) /\ FracLeq(x, One)

\* x is a number of 4 decimals, and no such number is nearer to y
Rounds(x, y) ==
    /\ Decimals % x[2] = 0
    /\ LET diff == x[1] * y[2] - y[1] * x[2]
           distance == IF diff < 0 THEN 0 - diff ELSE diff
       IN 2 * Decimals * distance <= x[2] * y[2]

\* C25: in every result row WP and RPI lie in [0, 1], and RPI is
\* 0.25*WP + 0.50*OWP + 0.25*OOWP of the same row rounded to 4 decimals.
C25_RpiWeightedAndRounded ==
    engine.stage = "rated" =>
        \A row \in Rows :
            /\ InUnitInterval(row.wp)
            /\ InUnitInterval(row.rpi)
            /\ Rounds(row.rpi, Weighted(row))

C25_Witness ==
    /\ engine.stage = "rated"
    /\ \E row \in Rows :
        /\ Decimals % Weighted(row)[2] # 0
        /\ Rounds(row.rpi, Weighted(row))
        /\ row.wp \notin {Zero, One}

\* C26: the results hold one row for every team a match refers to, the
\* ranks are 1..N in list order, the RPI never increases along the list,
\* and rows of equal RPI stand in the order of the teams' first appearance.
C26_RankedByRpi ==
    engine.stage = "rated" =>
        /\ {row.team : row \in Rows} = Referenced
        /\ Len(engine.results) = Cardinality(Referenced)
        /\ \A i \in DOMAIN engine.results : engine.results[i].rank = i
        /\ \A i, j \in DOMAIN engine.results :
            i < j =>
                /\ FracLeq(engine.results[j].rpi, engine.results[i].rpi)
                /\ engine.results[i].rpi = engine.results[j].rpi
                    => FirstAppearance(engine.results[i].team)
                         < FirstAppearance(engine.results[j].team)

C26_Witness ==
    /\ engine.stage = "rated"
    /\ Len(engine.results) = 3
    /\ engine.results[2].rpi = engine.results[3].rpi
    /\ FracLess(engine.results[2].rpi, engine.results[1].rpi)
    /\ engine.results[1].team # engine.team_list[1]

\* the match list of the worked example: X beats Y 2-1, Y beats Z 1-0
ExampleMatches ==
    <<Match("X", "Y", <<2, 1>>), Match("Y", "Z", <<1, 0>>)>>

ExampleRow(team, rank, rpi, wp) ==
    \E row \in Rows :
        /\ row.team = team /\ row.rank = rank
        /\ row.rpi = rpi /\ row.wp = wp
        /\ row.owp = <<1, 2>> /\ row.oowp = <<1, 2>>

\* C27: for the matches X beats Y 2-1 and Y beats Z 1-0 the engine gives
\* WP 1.0, 0.5, 0.0 for X, Y, Z, OWP and OOWP 0.5 for all three, RPI 0.625,
\* 0.5, 0.375 and the ranks 1, 2, 3.
C27_WorkedExample ==
    engine.stage = "rated" /\ engine.matches = ExampleMatches =>
        /\ Len(engine.results) = 3
        /\ ExampleRow("X", 1, <<5, 8>>, One)
        /\ ExampleRow("Y", 2, <<1, 2>>, <<1, 2>>)
        /\ ExampleRow("Z", 3, <<3, 8>>, Zero)

C27_Witness ==
    /\ engine.stage = "rated"
    /\ engine.matches = ExampleMatches
    /\ engine.results[1].team = "X"
    /\ engine.results[3].team = "Z"

\* C28: the memoized values belong to one run: a calculator that is used
\* again gives the rows a new calculator gives for the same matches.
C28_ReusedAsFresh ==
    engine.stage = "rated" =>
        engine.results = calculate_all_rpi_optimized(NewEngine.cache,
                            engine.team_list, engine.teams)

\* C29: during one failing execute_step call no step has its compensation
\* invoked more than once, also when the failing step was reached through
\* the chain of recursive calls started at index 0.
C29_CompensatedAtMostOnce ==
    saga_call.op = "execute_step" =>
        \A i, j \in DOMAIN saga_call.compensated :
            i # j => saga_call.compensated[i] # saga_call.compensated[j]

\* C30: every progress update of a run goes to the status record that
\* mark_calculation_start created for the run: once a run has written
\* progress, the only record that carries its calculation_id is the one
\* under the period key of the run.
C30_ProgressOnStartRecord ==
    \A p \in Invocations :
        trace[p].progress_writes > 0 =>
            \A key \in DOMAIN status_table :
                key.calculation_id = calculator[p].calculation_id
                    => key = RunKey(p)

\* C31: a run whose start record was written is completed or failed when the
\* invocation that started it has ended, also when loading the matches or
\* storing the results raised; the run is not left in_progress for its TTL
\* to remove.  Only invocations whose status writes all reached the store
\* are looked at.
C31_RunEndsTerminal ==
    \A p \in Invocations :
        (/\ frame[p].pc = "done"
         /\ trace[p].start_written
         /\ ~trace[p].status_write_failed
         /\ RunKey(p) \in DOMAIN status_table) =>
            status_table[RunKey(p)].status \in {"completed", "failed"}

\* ---------------------------------------------- saga claims, second part
\* C32: in every state of a saga, a saga that is completed has only
\* completed steps, whatever execute_step calls were made, direct calls on
\* the last index included.
C32_CompletedSagaAllStepsCompleted ==
    SagaStatus = "completed" =>
        \A i \in DOMAIN Steps : Steps[i].status = "completed"

\* C33: after an execute_step call (the store being up) has returned or
\* raised, no step of the saga is running, and a step whose handler raised
\* is failed.
C33_NoStepLeftRunning ==
    (saga_call.op = "execute_step" /\ ~saga_call.store_down) =>
        /\ \A i \in DOMAIN Steps : Steps[i].status # "running"
        /\ saga_call.first_raised = "InvokeError" =>
                \A k \in saga_call.failed_at : Steps[k + 1].status = "failed"

\* C34: the saga status is terminal once it is completed or failed: no step
\* takes a failed saga to completed or a completed saga to failed.
C34_TerminalSagaStatus ==
    [][/\ SagaStatus = "failed" => SagaStatus' # "completed"
       /\ SagaStatus = "completed" => SagaStatus' # "failed"]_vars

\* C35: an execute_step call (the store being up) whose index lies beyond
\* the last step leaves the saga record as it was and invokes no
\* compensation.
C35_RejectedCallChangesNothing ==
    [][(/\ saga_call'.op = "execute_step"
        /\ ~saga_call'.store_down
        /\ TheSaga \in DOMAIN saga_table
        /\ saga_call'.step_index >= Len(Steps)) =>
            /\ saga_table' = saga_table
            /\ saga_call'.compensated = <<>>]_vars

\* ------------------------------------------------ handler claims, order
\* the cache entry written by the run of invocation p
CachedBy(p) ==
    {date \in DOMAIN cache_table :
        cache_table[date].calculation_id = calculator[p].calculation_id}

\* C36: on the compute path of the handler the effects come in this order:
\* the run is marked completed, the cache is saved, the results are written
\* to the results table and then to the object store, the publisher is
\* triggered.  The cache holds an entry of a run only when the run is marked
\* completed, and the publisher is triggered only when both result writes
\* are there.
C36_ComputePathOrder ==
    /\ \A p \in Invocations :
        calculator[p].calculation_id # NoId =>
            /\ CachedBy(p) # {} =>
                    /\ RunKey(p) \in DOMAIN status_table
                    /\ status_table[RunKey(p)].status = "completed"
                    /\ frame[p].pc \in {"store_db", "store_s3", "trigger",
                                        "done"}
            /\ RunKey(p) \in rpi_table =>
                    frame[p].pc \in {"store_s3", "trigger", "done"}
            /\ RunKey(p) \in s3_objects =>
                    /\ RunKey(p) \in rpi_table
                    /\ frame[p].pc \in {"trigger", "done"}
            /\ (\/ frame[p].pc = "trigger"
                \/ /\ frame[p].pc = "done"
                   /\ frame[p].response = "success"
                   /\ frame[p].rpi_results > 0) =>
                    RunKey(p) \in rpi_table \cap s3_objects
    /\ \A call \in invoked :
            \E key \in rpi_table \cap s3_objects :
                key.calculation_date = call.calculation_date

C36_Witness ==
    \E p \in Invocations :
        /\ frame[p].pc = "done" /\ frame[p].response = "success"
        /\ CachedBy(p) # {}
        /\ status_table[RunKey(p)].status = "completed"
        /\ RunKey(p) \in rpi_table \cap s3_objects
        /\ invoked # {}

\* the positions of the handler between a cache hit and its response
CachedPath == {"cached_store_db", "cached_store_s3", "cached_trigger"}

ServedFromCache(p) ==
    \/ frame[p].pc \in CachedPath
    \/ frame[p].pc = "done" /\ frame[p].response = "cached"

\* a step of invocation p on the path that serves the cache
CachedPathStep(p) ==
    /\ frame'[p] # frame[p]
    /\ frame[p].pc \in CachedPath \/ frame'[p].pc \in CachedPath

\* C37: an invocation that serves its period from a fresh cache creates no
\* run record (it has no calculation_id and made no status write), and none
\* of its steps changes the status table or the cache table.
C37_CachedPathWritesNoRun ==
    /\ [](\A p \in Invocations :
            ServedFromCache(p) =>
                /\ calculator[p].calculation_id = NoId
                /\ ~trace[p].start_written
                /\ ~trace[p].status_write_failed
                /\ trace[p].progress_writes = 0)
    /\ [][\A p \in Invocations :
            CachedPathStep(p) =>
                /\ status_table' = status_table
                /\ cache_table' = cache_table]_vars

C37_Witness ==
    \E p \in Invocations :
        /\ frame[p].pc = "done" /\ frame[p].response = "cached"
        /\ StatusKey(frame[p].calculation_date, CachedId)
                \in rpi_table \cap s3_objects
        /\ frame[p].calculation_date \in DOMAIN cache_table
        /\ DOMAIN status_table # {}

\* ---------------------------------------------------------- request claims
\* C38: a call of send_request_with_rate_limit_handling sends at most
\* max_retries requests, a request answered with 429 counting like one that
\* ended in a connection error; when it has ended it has returned a
\* response that is not a 429 or raised ConnectionError.
C38_AtMostMaxRetriesAttempts ==
    /\ request.attempts <= request.max_retries
    /\ request.pc = "returned" => request.status_code # TooManyRequests
    /\ request.pc = "raised" => request.raised = "ConnectionError"


====
